---- MODULE Spec2Model ----
(***************************************************************************)
(* Model of power_monitor.py: the buffered CSVLogger, the CSV file it      *)
(* appends to, and the Collector.run() acquisition loop that owns it.      *)
(*                                                                         *)
(* The CSV file is a sequence of chunks in the order the bytes reached the *)
(* file: the header line, complete data rows, and unterminated fragments   *)
(* left behind by a write that failed part-way.  A record is identified by *)
(* its timestamp; the remaining fields do not influence the logger.        *)
(***************************************************************************)
EXTENDS Integers, Sequences, FiniteSets

\* ------------------------------------------------------------------ bounds
MaxFlushInterval == 3   \* CSV_FLUSH_INTERVAL is drawn from 1..MaxFlushInterval
MaxCycles == 4          \* cap on loop iterations of one run; MAX_RECORDS in -1..MaxCycles
MaxRuns == 2            \* process starts (the first start and restarts)
MaxReopens == 1         \* further CSVLogger instances constructed on the same path
MaxWindow == 2          \* AVERAGING_WINDOW of a run is at most MaxWindow samples

VARIABLES
    cfg,            \* Config: MAX_RECORDS, CSV_FLUSH_INTERVAL (fixed before the run)
    store,          \* the file at CSV_PATH: [exists, data]
    logger,         \* the Collector's CSVLogger: [buffer, total_written, flush_interval]
    record_count,   \* Collector.record_count
    pc,             \* position of the process in main()/Collector.run()
    clock,          \* time of the last record built (timestamps strictly increase)
    handed,         \* history: timestamps of the records passed to log() in this run
    auto_flushes,   \* history: flush() calls made by log() in this run
    exit_flushes,   \* history: flush() calls made by run() after the loop in this run
    attempt,        \* history: the most recent flush() of a non-empty buffer
    runs,           \* history: number of process starts so far
    reopens,        \* history: number of other logger instances constructed
    cal,            \* Config: the electrical, sampling and threshold parameters
    window,         \* history: the last sample_window() call of this run
    fault,          \* history: what raised in this run ("none" while nothing has)
    probe           \* inputs and result of one call of a pure function

vars == <<cfg, store, logger, record_count, pc, clock, handed, auto_flushes,
          exit_flushes, attempt, runs, reopens, cal, window, fault, probe>>

\* ----------------------------------------------------------- file content
\* CSVLogger.HEADERS written as one line
HEADERS == [kind |-> "header", ts |-> 0]

\* One record written as one complete line by DictWriter
Row(record) == [kind |-> "row", ts |-> record.timestamp]

\* The leading bytes of a line, without its line terminator
Frag(line) == [kind |-> "frag", ts |-> line.ts]

RECURSIVE Rows(_)
Rows(records) ==
    IF records = <<>> THEN <<>>
    ELSE <<Row(Head(records))>> \o Rows(Tail(records))

\* What a reader of the file sees as data rows: a complete row that follows an
\* unterminated fragment is glued to it on the same line and is not a row.
RECURSIVE DataRows(_)
DataRows(data) ==
    IF data = <<>> THEN <<>>
    ELSE LET n == Len(data)
             last == data[n]
             glued == n > 1 /\ data[n - 1].kind = "frag"
         IN  IF last.kind = "row" /\ ~glued
             THEN Append(DataRows(SubSeq(data, 1, n - 1)), last.ts)
             ELSE DataRows(SubSeq(data, 1, n - 1))

HeaderCount(data) == Cardinality({i \in 1..Len(data) : data[i].kind = "header"})

\* ------------------------------------------------------- storage outcomes
\* What the file system does during one CSVLogger call.  ok: every operation
\* succeeds.  Otherwise the call raises after `written` complete lines, and
\* `frag` tells whether the leading bytes of the next line reached the file
\* too; `created` tells whether open(path, "w") got as far as creating the file.
IoOk == [ok |-> TRUE, created |-> TRUE, written |-> 0, frag |-> FALSE]

\* Outcomes of CSVLogger.__init__: mkdir/open fail, or the header write fails
InitIo ==
    {IoOk}
    \cup {[ok |-> FALSE, created |-> FALSE, written |-> 0, frag |-> FALSE]}
    \cup {[ok |-> FALSE, created |-> TRUE, written |-> 0, frag |-> b] : b \in BOOLEAN}

\* Outcomes of a flush() that writes n rows
FlushIo(n) ==
    {IoOk}
    \cup {[ok |-> FALSE, created |-> TRUE, written |-> 0, frag |-> FALSE]}
    \cup {[ok |-> FALSE, created |-> TRUE, written |-> k, frag |-> b] :
             k \in 0..(n - 1), b \in BOOLEAN}

\* --------------------------------------------------------------- CSVLogger
\* CSVLogger._write_headers: open(path, "w") truncates, then writeheader()
write_headers(st, io) ==
    IF io.ok THEN [store |-> [exists |-> TRUE, data |-> <<HEADERS>>], raised |-> FALSE]
    ELSE IF ~io.created THEN [store |-> st, raised |-> TRUE]
    ELSE [store |-> [exists |-> TRUE,
                     data |-> IF io.frag THEN <<Frag(HEADERS)>> ELSE <<>>],
          raised |-> TRUE]

\* CSVLogger.__init__
CSVLogger(st, flush_interval, io) ==
    LET fresh == [buffer |-> <<>>, total_written |-> 0,
                  flush_interval |-> flush_interval]
    IN  IF ~io.ok /\ ~io.created
        THEN [logger |-> fresh, store |-> st, raised |-> TRUE]
        ELSE IF ~st.exists
        THEN LET w == write_headers(st, io)
             IN  [logger |-> fresh, store |-> w.store, raised |-> w.raised]
        ELSE [logger |-> fresh, store |-> st, raised |-> FALSE]

\* flush() as it would be with the clear in a `finally`: the buffer is emptied
\* whether or not the write succeeded
flush_finally(lg, st, io) ==
    IF lg.buffer = <<>>
    THEN [logger |-> lg, store |-> st, raised |-> FALSE, flushed |-> FALSE]
    ELSE IF io.ok
    THEN [logger |-> [lg EXCEPT !.total_written = @ + Len(lg.buffer),
                                !.buffer = <<>>],
          store |-> [exists |-> TRUE, data |-> st.data \o Rows(lg.buffer)],
          raised |-> FALSE, flushed |-> TRUE]
    ELSE [logger |-> [lg EXCEPT !.buffer = <<>>],
          store |-> [exists |-> st.exists \/ io.written > 0 \/ io.frag,
                     data |-> st.data \o Rows(SubSeq(lg.buffer, 1, io.written))
                              \o (IF io.frag
                                  THEN <<Frag(Row(lg.buffer[io.written + 1]))>>
                                  ELSE <<>>)],
          raised |-> TRUE, flushed |-> TRUE]

\* flush() as it would be with the file opened in mode "w" instead of "a"
flush_truncating(lg, st, io) ==
    IF lg.buffer = <<>>
    THEN [logger |-> lg, store |-> st, raised |-> FALSE, flushed |-> FALSE]
    ELSE IF io.ok
    THEN [logger |-> [lg EXCEPT !.total_written = @ + Len(lg.buffer),
                                !.buffer = <<>>],
          store |-> [exists |-> TRUE, data |-> Rows(lg.buffer)],
          raised |-> FALSE, flushed |-> TRUE]
    ELSE [logger |-> lg,
          store |-> [exists |-> TRUE,
                     data |-> Rows(SubSeq(lg.buffer, 1, io.written))],
          raised |-> TRUE, flushed |-> TRUE]

\* flush() as it would be without the `if not self.buffer: return` guard: the
\* file is opened, and the counters touched, for an empty buffer too
flush_unguarded(lg, st, io) ==
    IF io.ok
    THEN [logger |-> [lg EXCEPT !.total_written = @ + Len(lg.buffer),
                                !.buffer = <<>>],
          store |-> [exists |-> TRUE, data |-> st.data \o Rows(lg.buffer)],
          raised |-> FALSE, flushed |-> TRUE]
    ELSE [logger |-> lg,
          store |-> [exists |-> st.exists \/ io.written > 0 \/ io.frag,
                     data |-> st.data \o Rows(SubSeq(lg.buffer, 1, io.written))
                              \o (IF io.frag
                                  THEN <<Frag(Row(lg.buffer[io.written + 1]))>>
                                  ELSE <<>>)],
          raised |-> TRUE, flushed |-> TRUE]

\* flush() as it would be without buffer.clear(): the written records stay
\* buffered
flush_keeps_buffer(lg, st, io) ==
    IF lg.buffer = <<>>
    THEN [logger |-> lg, store |-> st, raised |-> FALSE, flushed |-> FALSE]
    ELSE [logger |-> [lg EXCEPT !.total_written = @ + Len(lg.buffer)],
          store |-> [exists |-> TRUE, data |-> st.data \o Rows(lg.buffer)],
          raised |-> ~io.ok, flushed |-> TRUE]

\* flush() as it would be counting flushes instead of rows in total_written
flush_counts_calls(lg, st, io) ==
    IF lg.buffer = <<>>
    THEN [logger |-> lg, store |-> st, raised |-> FALSE, flushed |-> FALSE]
    ELSE [logger |-> [lg EXCEPT !.total_written = @ + 1, !.buffer = <<>>],
          store |-> [exists |-> TRUE, data |-> st.data \o Rows(lg.buffer)],
          raised |-> ~io.ok, flushed |-> TRUE]

\* CSVLogger.flush
flush(lg, st, io) ==
    IF lg.buffer = <<>>
    THEN [logger |-> lg, store |-> st, raised |-> FALSE, flushed |-> FALSE]
    ELSE IF io.ok
    THEN [logger |-> [lg EXCEPT !.total_written = @ + Len(lg.buffer),
                                !.buffer = <<>>],
          store |-> [exists |-> TRUE, data |-> st.data \o Rows(lg.buffer)],
          raised |-> FALSE, flushed |-> TRUE]
    ELSE LET done == Rows(SubSeq(lg.buffer, 1, io.written))
             part == IF io.frag
                     THEN <<Frag(Row(lg.buffer[io.written + 1]))>>
                     ELSE <<>>
         IN  [logger |-> lg,
              store |-> [exists |-> st.exists \/ io.written > 0 \/ io.frag,
                         data |-> st.data \o done \o part],
              raised |-> TRUE, flushed |-> TRUE]

\* log() as it would be with `>` in place of `>=`
log_late(lg, st, record, io) ==
    LET appended == [lg EXCEPT !.buffer = Append(@, record)]
    IN  IF Len(appended.buffer) > appended.flush_interval
        THEN flush(appended, st, io)
        ELSE [logger |-> appended, store |-> st, raised |-> FALSE, flushed |-> FALSE]

\* log() as it would be with the length tested before the append
log_check_first(lg, st, record, io) ==
    IF Len(lg.buffer) >= lg.flush_interval
    THEN LET res == flush(lg, st, io)
         IN  IF res.raised THEN res
             ELSE [res EXCEPT !.logger.buffer = Append(@, record)]
    ELSE [logger |-> [lg EXCEPT !.buffer = Append(@, record)],
          store |-> st, raised |-> FALSE, flushed |-> FALSE]

\* CSVLogger.log
log(lg, st, record, io) ==
    LET appended == [lg EXCEPT !.buffer = Append(@, record)]
    IN  IF Len(appended.buffer) >= appended.flush_interval
        THEN flush(appended, st, io)
        ELSE [logger |-> appended, store |-> st, raised |-> FALSE, flushed |-> FALSE]

\* ------------------------------------------------------------- arithmetic
\* Floating-point quantities (volts, amps, watts, gains) are held as integers
\* in thousandths; every operation rounds its exact result to the nearest
\* thousandth, as a float operation rounds to the nearest representable value.
Milli == 10 * 10 * 10

\* round(a * b) for a, b in thousandths
FMul(a, b) == (a \div Milli) * b + ((a % Milli) * b + Milli \div 2) \div Milli

\* round(a / b) for a, b in thousandths, b # 0
FDiv(a, b) ==
    IF b > 0 THEN (2 * a * Milli + b) \div (2 * b)
    ELSE (2 * (0 - a) * Milli + (0 - b)) \div (2 * (0 - b))

RECURSIVE Sum(_)
Sum(xs) == IF xs = <<>> THEN 0 ELSE Head(xs) + Sum(Tail(xs))

\* sum(samples) / len(samples), len(samples) > 0
Mean(xs) == (2 * Sum(xs) + Len(xs)) \div (2 * Len(xs))

\* Config defaults, in thousandths where the source has a float
AMPLIFIER_GAIN == 100000
CT_RANGE_AMPS == 50000
LINE_VOLTAGE == 230000
PHASES == 3
SAMPLE_RATE_HZ == 50
IDLE_THRESHOLD == 500
FAULT_THRESHOLD == 100000

\* PowerMath.ONE_OVER_SQRT2
ONE_OVER_SQRT2 == 707

\* ------------------------------------------------- PowerMath, StateClassifier
\* calculate() as it would be with the power taken from the clamp current
\* instead of the RMS current
calculate_from_clamp(gain, ct_range, line_voltage, phases, avg_adc_voltage) ==
    IF gain = 0 THEN [rms_current |-> 0, power_w |-> 0, raised |-> TRUE]
    ELSE LET amplifier_voltage_in == FDiv(avg_adc_voltage, gain)
             clamp_current == FMul(amplifier_voltage_in, ct_range)
             rms_current == FMul(clamp_current, ONE_OVER_SQRT2)
             power_w == FMul(phases * clamp_current, line_voltage)
         IN  [rms_current |-> rms_current, power_w |-> power_w, raised |-> FALSE]

\* PowerMath.calculate; dividing by a zero gain raises ZeroDivisionError
calculate(gain, ct_range, line_voltage, phases, avg_adc_voltage) ==
    IF gain = 0 THEN [rms_current |-> 0, power_w |-> 0, raised |-> TRUE]
    ELSE LET amplifier_voltage_in == FDiv(avg_adc_voltage, gain)
             clamp_current == FMul(amplifier_voltage_in, ct_range)
             rms_current == FMul(clamp_current, ONE_OVER_SQRT2)
             power_w == FMul(phases * rms_current, line_voltage)
         IN  [rms_current |-> rms_current, power_w |-> power_w, raised |-> FALSE]

\* classify() as it would be with the thresholds themselves outside "running"
classify_inclusive(current_rms, idle_threshold, fault_threshold) ==
    IF current_rms <= idle_threshold THEN "idle"
    ELSE IF current_rms >= fault_threshold THEN "fault"
    ELSE "running"

\* StateClassifier.classify
classify(current_rms, idle_threshold, fault_threshold) ==
    IF current_rms < idle_threshold THEN "idle"
    ELSE IF current_rms > fault_threshold THEN "fault"
    ELSE "running"

\* ----------------------------------------------------------- sample_window
\* What the sensor does during one sample_window() call: values[i] is the
\* voltage of the i-th sample_voltage() call, and fault_at is the call that
\* raises a hardware fault (0: none does).
Reads(voltages, n) ==
    [values : [1..n -> voltages], fault_at : 0..(IF n > 0 THEN n ELSE 0)]

NoWindow ==
    [events |-> <<>>, samples |-> <<>>, avg |-> 0, raised |-> FALSE,
     cause |-> "none", done |-> 0]

\* The loop as it would be with a failed read replaced by 0.0 V
RECURSIVE window_loop_default(_, _, _, _)
window_loop_default(c, rd, i, acc) ==
    IF i > c.AVERAGING_WINDOW THEN acc
    ELSE LET v == IF rd.fault_at = i THEN 0 ELSE rd.values[i]
             drawn == [acc EXCEPT !.events = Append(@, "sample"),
                                  !.samples = Append(@, v)]
         IN  IF c.SAMPLE_RATE_HZ < 0
             THEN [drawn EXCEPT !.raised = TRUE, !.cause = "config"]
             ELSE window_loop_default(c, rd, i + 1,
                                      [drawn EXCEPT !.events = Append(@, "sleep")])

\* The loop as it would be with the sleep placed before every sample but the
\* first, instead of after every sample
RECURSIVE window_loop_between(_, _, _, _)
window_loop_between(c, rd, i, acc) ==
    IF i > c.AVERAGING_WINDOW THEN acc
    ELSE IF i > 1 /\ c.SAMPLE_RATE_HZ < 0
    THEN [acc EXCEPT !.raised = TRUE, !.cause = "config"]
    ELSE LET waited == IF i > 1 THEN [acc EXCEPT !.events = Append(@, "sleep")]
                       ELSE acc
         IN  IF rd.fault_at = i
             THEN [waited EXCEPT !.raised = TRUE, !.cause = "hardware"]
             ELSE window_loop_between(c, rd, i + 1,
                      [waited EXCEPT !.events = Append(@, "sample"),
                                     !.samples = Append(@, rd.values[i])])

\* The loop of Collector.sample_window from its i-th iteration on: draw a
\* sample, keep it, sleep.  A negative interval makes time.sleep raise.
RECURSIVE window_loop(_, _, _, _)
window_loop(c, rd, i, acc) ==
    IF i > c.AVERAGING_WINDOW THEN acc
    ELSE IF rd.fault_at = i
    THEN [acc EXCEPT !.raised = TRUE, !.cause = "hardware"]
    ELSE LET drawn == [acc EXCEPT !.events = Append(@, "sample"),
                                  !.samples = Append(@, rd.values[i])]
         IN  IF c.SAMPLE_RATE_HZ < 0
             THEN [drawn EXCEPT !.raised = TRUE, !.cause = "config"]
             ELSE window_loop(c, rd, i + 1,
                              [drawn EXCEPT !.events = Append(@, "sleep")])

\* Collector.sample_window; 1.0 / SAMPLE_RATE_HZ and sum / len raise
\* ZeroDivisionError on a zero rate and on an empty window
sample_window(c, rd) ==
    IF c.SAMPLE_RATE_HZ = 0
    THEN [NoWindow EXCEPT !.raised = TRUE, !.cause = "config"]
    ELSE LET w == window_loop(c, rd, 1, NoWindow)
         IN  IF w.raised THEN w
             ELSE IF w.samples = <<>>
             THEN [w EXCEPT !.raised = TRUE, !.cause = "config"]
             ELSE [w EXCEPT !.avg = Mean(w.samples)]

\* --------------------------------------------------------------- Collector
\* The break condition as it would be with `>` in place of `>=`
limit_exceeded(max_records, count) == max_records # 0 /\ count > max_records

\* The break condition of Collector.run
limit_reached(max_records, count) == max_records # 0 /\ count >= max_records

NoAttempt ==
    [called |-> FALSE, via |-> "none", buf |-> <<>>, total |-> 0, before |-> <<>>,
     after |-> <<>>, buf_after |-> <<>>, total_after |-> 0, raised |-> FALSE]

\* The flush() of buffer lg.buffer that produced res, as seen from outside
Attempt(via, lg, st, res) ==
    [called |-> TRUE, via |-> via, buf |-> lg.buffer, total |-> lg.total_written,
     before |-> st.data, after |-> res.store.data, buf_after |-> res.logger.buffer,
     total_after |-> res.logger.total_written, raised |-> res.raised]

\* The same with the exception caught and ignored (try/except: pass)
propagate_swallowed(raised, next) == next

\* Where the process is after a step of main()/run() that may have raised:
\* nothing catches the exception, so it ends the process
propagate(raised, next) == IF raised THEN "Failed" ELSE next

\* The Config class as written, with a window of n samples
DefaultCal(n) ==
    [AMPLIFIER_GAIN |-> AMPLIFIER_GAIN, CT_RANGE_AMPS |-> CT_RANGE_AMPS,
     LINE_VOLTAGE |-> LINE_VOLTAGE, PHASES |-> PHASES,
     SAMPLE_RATE_HZ |-> SAMPLE_RATE_HZ, AVERAGING_WINDOW |-> n,
     IDLE_THRESHOLD |-> IDLE_THRESHOLD, FAULT_THRESHOLD |-> FAULT_THRESHOLD]

\* The run limits and flush intervals a deployment may set
Cfgs == [MAX_RECORDS : -1..MaxCycles, CSV_FLUSH_INTERVAL : 1..MaxFlushInterval]

\* No pure function is being probed
NoProbe == [fn |-> "none", args |-> <<>>, out |-> <<>>]

\* The state before main() runs, cfg and cal being set
Boot ==
    /\ store = [exists |-> FALSE, data |-> <<>>]
    /\ logger = [buffer |-> <<>>, total_written |-> 0,
                 flush_interval |-> cfg.CSV_FLUSH_INTERVAL]
    /\ record_count = 0
    /\ pc = "NotStarted"
    /\ clock = 0
    /\ handed = <<>>
    /\ auto_flushes = 0
    /\ exit_flushes = 0
    /\ attempt = NoAttempt
    /\ runs = 0
    /\ reopens = 0
    /\ window = NoWindow
    /\ fault = "none"

Init ==
    /\ cfg \in Cfgs
    /\ cal = DefaultCal(MaxWindow)
    /\ probe = NoProbe
    /\ Boot

\* main(): a process starts and constructs the Collector and its CSVLogger
Start(io) ==
    /\ pc \in {"NotStarted", "Stopped", "Failed", "Terminated"}
    /\ runs < MaxRuns
    /\ LET res == CSVLogger(store, cfg.CSV_FLUSH_INTERVAL, io)
       IN  /\ logger' = res.logger
           /\ store' = res.store
           /\ pc' = IF res.raised THEN "Failed" ELSE "WindowSampling"
           /\ fault' = IF res.raised THEN "storage" ELSE "none"
    /\ record_count' = 0
    /\ handed' = <<>>
    /\ auto_flushes' = 0
    /\ exit_flushes' = 0
    /\ attempt' = NoAttempt
    /\ window' = NoWindow
    /\ runs' = runs + 1
    /\ UNCHANGED <<cfg, clock, reopens, cal, probe>>

\* One iteration of the loop of Collector.run: sample a window, build the
\* record, log it, count it, test the limit
Cycle(rd, io) ==
    /\ pc = "WindowSampling"
    /\ record_count < MaxCycles
    /\ LET w == sample_window(cal, rd)
           m == calculate(cal.AMPLIFIER_GAIN, cal.CT_RANGE_AMPS, cal.LINE_VOLTAGE,
                          cal.PHASES, w.avg)
       IN  IF w.raised
           THEN /\ window' = [w EXCEPT !.done = window.done]
                /\ fault' = w.cause
                /\ pc' = propagate(TRUE, "WindowSampling")
                /\ UNCHANGED <<store, logger, record_count, clock, handed,
                               auto_flushes, attempt>>
           ELSE IF m.raised
           THEN /\ window' = [w EXCEPT !.done = window.done + 1]
                /\ fault' = "config"
                /\ pc' = propagate(TRUE, "WindowSampling")
                /\ UNCHANGED <<store, logger, record_count, clock, handed,
                               auto_flushes, attempt>>
           ELSE LET record == [timestamp |-> clock + 1,
                               current_rms |-> m.rms_current,
                               power_w |-> m.power_w,
                               state |-> classify(m.rms_current, cal.IDLE_THRESHOLD,
                                                  cal.FAULT_THRESHOLD)]
                    appended == [logger EXCEPT !.buffer = Append(@, record)]
                    res == log(logger, store, record, io)
                    flushes == res.flushed
                IN  /\ window' = [w EXCEPT !.done = window.done + 1]
                    /\ clock' = clock + 1
                    /\ handed' = Append(handed, record.timestamp)
                    /\ logger' = res.logger
                    /\ store' = res.store
                    /\ auto_flushes' = IF flushes THEN auto_flushes + 1
                                       ELSE auto_flushes
                    /\ attempt' = IF flushes
                                  THEN Attempt("log", appended, store, res)
                                  ELSE attempt
                    /\ fault' = IF res.raised THEN "storage" ELSE fault
                    /\ record_count' = IF res.raised THEN record_count
                                       ELSE record_count + 1
                    /\ pc' = propagate(res.raised,
                                       IF limit_reached(cfg.MAX_RECORDS,
                                                        record_count + 1)
                                       THEN "Exiting" ELSE "WindowSampling")
    /\ UNCHANGED <<cfg, exit_flushes, runs, reopens, cal, probe>>

\* Collector.run after the loop: the final flush and the [END] report
Exit(io) ==
    /\ pc = "Exiting"
    /\ LET res == flush(logger, store, io)
       IN  /\ logger' = res.logger
           /\ store' = res.store
           /\ attempt' = IF res.flushed
                         THEN Attempt("run", logger, store, res) ELSE attempt
           /\ fault' = IF res.raised THEN "storage" ELSE fault
           /\ pc' = propagate(res.raised, "Stopped")
    /\ exit_flushes' = exit_flushes + 1
    /\ UNCHANGED <<cfg, record_count, clock, handed, auto_flushes, runs, reopens,
                   cal, window, probe>>

\* An external signal ends the process; main() installs no handler
Terminate ==
    /\ pc \in {"WindowSampling", "Exiting"}
    /\ pc' = "Terminated"
    /\ UNCHANGED <<cfg, store, logger, record_count, clock, handed, auto_flushes,
                   exit_flushes, attempt, runs, reopens, cal, window, fault, probe>>

\* Another CSVLogger instance is constructed on the same path
Reopen(io) ==
    /\ reopens < MaxReopens
    /\ store' = CSVLogger(store, cfg.CSV_FLUSH_INTERVAL, io).store
    /\ reopens' = reopens + 1
    /\ UNCHANGED <<cfg, logger, record_count, pc, clock, handed, auto_flushes,
                   exit_flushes, attempt, runs, cal, window, fault, probe>>

\* The voltage of a quiet input (1.0 V), and the voltages of a varying one
SteadyVolts == {1000}
VaryingVolts == {0, 1000}

\* Sensor behaviours of one window: every read succeeds / one read raises
GoodReads(voltages) ==
    {rd \in Reads(voltages, cal.AVERAGING_WINDOW) : rd.fault_at = 0}
FaultyReads(voltages) ==
    {rd \in Reads(voltages, cal.AVERAGING_WINDOW) : rd.fault_at # 0}

StartAny == \E io \in InitIo : Start(io)
CycleAny ==
    \E rd \in GoodReads(SteadyVolts), io \in FlushIo(Len(logger.buffer) + 1) :
        Cycle(rd, io)
ExitAny == \E io \in FlushIo(Len(logger.buffer)) : Exit(io)
ReopenAny == \E io \in InitIo : Reopen(io)

\* The sensor read raises inside sample_window: the exception leaves run()
SensorFault == \E rd \in FaultyReads(SteadyVolts) : Cycle(rd, IoOk)

Next ==
    \/ StartAny
    \/ CycleAny
    \/ ExitAny
    \/ SensorFault
    \/ Terminate
    \/ ReopenAny

Spec == Init /\ [][Next]_vars

\* The same program when neither the sensor nor the file system fails and no
\* signal arrives; the loop and the final flush always get to run.
StartOk == Start(IoOk)
CycleOk == \E rd \in GoodReads(SteadyVolts) : Cycle(rd, IoOk)
ExitOk == Exit(IoOk)
ReopenOk == Reopen(IoOk)

NextOk ==
    \/ StartOk
    \/ CycleOk
    \/ ExitOk
    \/ ReopenOk

SpecOk == Init /\ [][NextOk]_vars /\ WF_vars(CycleOk) /\ WF_vars(ExitOk)

\* The program on a varying input whose reads may raise, for every window size
\* up to MaxWindow; the file system does not fail.
InitWin ==
    /\ cfg \in Cfgs
    /\ cal \in {DefaultCal(n) : n \in 1..MaxWindow}
    /\ probe = NoProbe
    /\ Boot

CycleWin == \E rd \in GoodReads(VaryingVolts) : Cycle(rd, IoOk)
SensorFaultWin == \E rd \in FaultyReads(VaryingVolts) : Cycle(rd, IoOk)

NextWin ==
    \/ StartOk
    \/ CycleWin
    \/ SensorFaultWin
    \/ ExitOk

SpecWin == InitWin /\ [][NextWin]_vars

\* The invariants the configuration is documented to satisfy
ValidCal(c) ==
    /\ c.AMPLIFIER_GAIN > 0
    /\ c.CT_RANGE_AMPS > 0
    /\ c.SAMPLE_RATE_HZ > 0
    /\ c.AVERAGING_WINDOW >= 1
    /\ c.IDLE_THRESHOLD < c.FAULT_THRESHOLD

\* Config edited before rollout: the default, and the default with one
\* parameter set to a value that breaks an invariant (zero, negated, an empty
\* window, thresholds equal or swapped)
EditedCals ==
    LET d == DefaultCal(MaxWindow)
    IN  {DefaultCal(n) : n \in {0, 1, MaxWindow}}
        \cup {[d EXCEPT !.AMPLIFIER_GAIN = g] : g \in {0 - AMPLIFIER_GAIN, 0}}
        \cup {[d EXCEPT !.CT_RANGE_AMPS = ct] : ct \in {0 - CT_RANGE_AMPS, 0}}
        \cup {[d EXCEPT !.SAMPLE_RATE_HZ = hz] : hz \in {0 - SAMPLE_RATE_HZ, 0}}
        \cup {[d EXCEPT !.FAULT_THRESHOLD = IDLE_THRESHOLD],
              [d EXCEPT !.IDLE_THRESHOLD = FAULT_THRESHOLD,
                        !.FAULT_THRESHOLD = IDLE_THRESHOLD]}

\* The program started with an edited Config; sensor and file system work
InitCfg ==
    /\ cfg \in {c \in Cfgs : c.MAX_RECORDS >= 0}
    /\ cal \in EditedCals
    /\ probe = NoProbe
    /\ Boot

SpecCfg == InitCfg /\ [][NextOk]_vars

\* ------------------------------------------------- the pure functions alone
\* Calls of classify(current_rms) on a StateClassifier(idle, fault); amps in
\* ten-thousandths, around the thresholds 0.5 A and 100.0 A
ClassifyProbes ==
    {[fn |-> "classify", args |-> <<rms, idle, flt>>, out |-> <<>>] :
        rms \in {0, 4999, 5000, 5001, 999999, 1000000, 1000001},
        idle \in {0, 5000, 1000000},
        flt \in {4999, 5000, 1000000}}

\* Calls of calculate(v1) and calculate(v2) on one PowerMath(gain, ct_range,
\* line_voltage, phases); volts and amps in thousandths
CalculateProbes ==
    {[fn |-> "calculate", args |-> <<gain, ct, lv, ph, v1, v2>>, out |-> <<>>] :
        gain \in {Milli, AMPLIFIER_GAIN},
        ct \in {1, CT_RANGE_AMPS},
        lv \in {0, LINE_VOLTAGE},
        ph \in {0, 1, PHASES},
        v1 \in {0, 1, 1000, 3300},
        v2 \in {0, 1, 1000, 3300}}

InitPure ==
    /\ cfg \in {c \in Cfgs : c.MAX_RECORDS = 0 /\ c.CSV_FLUSH_INTERVAL = 1}
    /\ cal = DefaultCal(MaxWindow)
    /\ probe \in ClassifyProbes \cup CalculateProbes
    /\ Boot

Unprobed == <<cfg, store, logger, record_count, pc, clock, handed, auto_flushes,
              exit_flushes, attempt, runs, reopens, cal, window, fault>>

\* One call of StateClassifier.classify
Classify ==
    /\ probe.fn = "classify"
    /\ probe.out = <<>>
    /\ probe' = [probe EXCEPT
                    !.out = <<classify(probe.args[1], probe.args[2], probe.args[3])>>]
    /\ UNCHANGED Unprobed

\* Two calls of PowerMath.calculate on the same PowerMath object
Calculate ==
    /\ probe.fn = "calculate"
    /\ probe.out = <<>>
    /\ LET a == probe.args
       IN  probe' = [probe EXCEPT
                       !.out = <<calculate(a[1], a[2], a[3], a[4], a[5]),
                                 calculate(a[1], a[2], a[3], a[4], a[6])>>]
    /\ UNCHANGED Unprobed

NextPure ==
    \/ Classify
    \/ Calculate

SpecPure == InitPure /\ [][NextPure]_vars

\* The program without sensor or storage failures, but with signals
NextSig ==
    \/ StartOk
    \/ CycleOk
    \/ ExitOk
    \/ ReopenOk
    \/ Terminate

SpecSig == Init /\ [][NextSig]_vars

\* ------------------------------------------------------------- properties
IsPrefix(s, t) == Len(s) <= Len(t) /\ SubSeq(t, 1, Len(s)) = s

\* The last n elements of s
LastN(s, n) == SubSeq(s, Len(s) - n + 1, Len(s))

\* The data rows of the file that carry the timestamps of this run's records
RowsOfRun == SelectSeq(DataRows(store.data), LAMBDA ts : ts > clock - Len(handed))

Alive == pc \in {"WindowSampling", "Exiting", "Stopped"}

\* C1: after N successful log() calls on a fresh logger with flush interval F,
\* floor(N/F) automatic flushes have happened and N mod F records are buffered;
\* once run() has made its explicit flush, exactly the N records are data rows
\* of the file (all of its data rows when this logger's process was the first to
\* write) and the header line is there exactly once, as the first line, however
\* often other logger instances were constructed on the path meanwhile.
C1_RoundTrip ==
    LET N == Len(handed)
        F == cfg.CSV_FLUSH_INTERVAL
    IN  /\ Alive =>
            /\ auto_flushes = N \div F
            /\ logger.total_written = F * (N \div F) + (IF pc = "Stopped" THEN N % F ELSE 0)
        /\ pc \in {"WindowSampling", "Exiting"} => Len(logger.buffer) = N % F
        /\ pc = "Stopped" =>
            /\ logger.buffer = <<>>
            /\ Len(DataRows(store.data)) >= N
            /\ LastN(DataRows(store.data), N) = handed
            /\ (runs = 1 => DataRows(store.data) = handed)
            /\ HeaderCount(store.data) = 1
            /\ store.data[1] = HEADERS

C1_Witness ==
    /\ pc = "Stopped"
    /\ cfg.CSV_FLUSH_INTERVAL = 3
    /\ Len(handed) = 4
    /\ auto_flushes = 1
    /\ runs = 1
    /\ reopens = 1
    /\ DataRows(store.data) = <<1, 2, 3, 4>>

\* C2: whenever the acquisition process has stopped, by reaching the record
\* limit or by an external signal, the buffer is empty and every record that
\* was handed to log() is a data row of the file.
C2_FlushOnEveryStop ==
    pc \in {"Stopped", "Terminated"} =>
        /\ logger.buffer = <<>>
        /\ RowsOfRun = handed

\* C3: a flush() either appended all the records of the buffer it started with,
\* or left the file as it was, kept the buffer and raised; never a part of them.
C3_FlushAllOrNothing ==
    attempt.called =>
        \/ /\ attempt.after = attempt.before \o Rows(attempt.buf)
           /\ ~attempt.raised
        \/ /\ attempt.after = attempt.before
           /\ attempt.buf_after = attempt.buf
           /\ attempt.raised

\* C4: when the file system fails during flush(), called by run() or by log(),
\* the exception reaches the caller of run(), the buffer holds the records it
\* held when flush() started, in the same order, and total_written is unchanged.
C4_FailedFlushKeepsBuffer ==
    attempt.raised =>
        /\ pc = "Failed"
        /\ attempt.buf_after = attempt.buf
        /\ logger.buffer = attempt.buf
        /\ attempt.total_after = attempt.total
        /\ logger.total_written = attempt.total

C4_Witness ==
    /\ attempt.raised
    /\ attempt.via = "log"
    /\ Len(attempt.buf) = 3
    /\ Len(attempt.after) = Len(attempt.before) + 2
    /\ logger.total_written = 0

\* C5: once a logger has been opened, whatever opens, logs, flushes and reopens
\* came before, the file holds the header line exactly once.
C5_HeaderExactlyOnce ==
    Alive => HeaderCount(store.data) = 1

\* C6: whenever the file holds a data row, its first line is the header line.
C6_HeaderBeforeData ==
    DataRows(store.data) # <<>> => store.data[1] = HEADERS

\* C7: with MAX_RECORDS = M > 0 and no failure, run() reaches Stopped, and when it
\* has, exactly M cycles have run, M records were handed to log(), the final
\* flush() was called once, the M records are the new data rows of the file, the
\* buffer is empty and total_written is M.
C7_BoundedRunStops ==
    /\ [](cfg.MAX_RECORDS > 0 /\ pc = "Stopped" =>
            /\ record_count = cfg.MAX_RECORDS
            /\ Len(handed) = cfg.MAX_RECORDS
            /\ exit_flushes = 1
            /\ RowsOfRun = handed
            /\ Len(DataRows(store.data)) >= Len(handed)
            /\ LastN(DataRows(store.data), Len(handed)) = handed
            /\ logger.buffer = <<>>
            /\ logger.total_written = cfg.MAX_RECORDS)
    /\ [](cfg.MAX_RECORDS > 0 /\ pc = "WindowSampling" /\ exit_flushes = 0
            => record_count < cfg.MAX_RECORDS)
    /\ (cfg.MAX_RECORDS > 0 /\ pc = "WindowSampling") ~> (pc = "Stopped")

C7_Witness ==
    /\ pc = "Stopped"
    /\ cfg.MAX_RECORDS = 3
    /\ cfg.CSV_FLUSH_INTERVAL = 2
    /\ auto_flushes = 1
    /\ logger.total_written = 3

\* C8: the loop is left for Stopped only when a positive MAX_RECORDS is
\* configured and record_count has reached it; with MAX_RECORDS zero or negative
\* and no failure the loop is never left.
C8_StopsOnlyAtPositiveLimit ==
    pc \in {"Exiting", "Stopped"} =>
        /\ cfg.MAX_RECORDS > 0
        /\ record_count >= cfg.MAX_RECORDS

\* C9: the buffer never holds more than CSV_FLUSH_INTERVAL records, and holds
\* fewer whenever log() has returned normally.
C9_BufferBound ==
    /\ Len(logger.buffer) <= cfg.CSV_FLUSH_INTERVAL
    /\ Alive => Len(logger.buffer) < cfg.CSV_FLUSH_INTERVAL

C9_Witness ==
    /\ pc = "WindowSampling"
    /\ cfg.CSV_FLUSH_INTERVAL = 2
    /\ auto_flushes = 1
    /\ Len(logger.buffer) = 1

\* C10: the file only grows at its end, the data rows it shows only grow at
\* their end, and the data rows stand in the order in which their records were
\* passed to log() (timestamps are issued in that order).
C10_AppendOnlyInOrder ==
    /\ [][/\ IsPrefix(store.data, store'.data)
          /\ IsPrefix(DataRows(store.data), DataRows(store'.data))]_vars
    /\ [](LET rows == DataRows(store.data)
          IN  /\ \A i \in 1..Len(rows) : rows[i] \in 1..clock
              /\ \A i, j \in 1..Len(rows) : i < j => rows[i] < rows[j])

C10_Witness ==
    /\ runs = 2
    /\ auto_flushes = 1
    /\ Len(DataRows(store.data)) = 4
    /\ \E i \in 1..Len(store.data) : store.data[i].kind = "frag"

\* The complete rows in the file that were written from this run's records
AppendedByRun ==
    Cardinality({i \in 1..Len(store.data) :
                    /\ store.data[i].kind = "row"
                    /\ store.data[i].ts > clock - Len(handed)})

\* C11: total_written of the run's logger equals, in every reachable state, the
\* number of data rows this logger has appended to the file.
C11_TotalWrittenCountsRows ==
    logger.total_written = AppendedByRun

\* The events of n iterations that each draw a sample and then sleep
RECURSIVE SampleThenSleep(_)
SampleThenSleep(n) ==
    IF n <= 0 THEN <<>> ELSE SampleThenSleep(n - 1) \o <<"sample", "sleep">>

\* C12: a hardware fault at any sample of a window aborts the cycle: the
\* exception leaves run(), no record is built, log() is not called, and buffer,
\* file, record_count and total_written are as they were when the cycle began.
C12_SensorFaultAbortsCycle ==
    [][SensorFaultWin =>
          /\ pc' = "Failed"
          /\ fault' = "hardware"
          /\ window'.raised
          /\ Len(window'.samples) < cal.AVERAGING_WINDOW
          /\ window'.done = window.done
          /\ clock' = clock
          /\ handed' = handed
          /\ logger' = logger
          /\ store' = store
          /\ record_count' = record_count
          /\ attempt' = attempt]_vars

C12_Witness ==
    /\ pc = "Failed"
    /\ fault = "hardware"
    /\ cal.AVERAGING_WINDOW = 2
    /\ window.samples = <<1000>>
    /\ cfg.CSV_FLUSH_INTERVAL = 2
    /\ record_count = 3
    /\ Len(logger.buffer) = 1
    /\ Len(DataRows(store.data)) = 2

\* C16 as claimed: a completed window has drawn exactly AVERAGING_WINDOW
\* samples with a wait between consecutive samples only (none before the first,
\* none after the last), and the average is the mean of those samples.
C16_WaitsOnlyBetween ==
    window.done >= 1 /\ ~window.raised =>
        /\ Len(window.samples) = cal.AVERAGING_WINDOW
        /\ window.events
             = SubSeq(SampleThenSleep(cal.AVERAGING_WINDOW), 1,
                      2 * cal.AVERAGING_WINDOW - 1)
        /\ window.avg = Mean(window.samples)

\* C16 as the loop is written: a completed window has drawn exactly
\* AVERAGING_WINDOW samples, a wait follows every sample, the last one included
\* (none before the first), and the average is the mean of those samples; a
\* window cut short by a failed read has waited after each sample it drew.
C16_WaitAfterEverySample ==
    /\ window.done >= 1 /\ ~window.raised =>
        /\ Len(window.samples) = cal.AVERAGING_WINDOW
        /\ window.events = SampleThenSleep(cal.AVERAGING_WINDOW)
        /\ window.avg = Mean(window.samples)
    /\ window.raised =>
        /\ Len(window.samples) < cal.AVERAGING_WINDOW
        /\ window.events = SampleThenSleep(Len(window.samples))

C16_Witness ==
    /\ cal.AVERAGING_WINDOW = 2
    /\ window.done = 2
    /\ window.samples = <<0, 1000>>
    /\ window.events = <<"sample", "sleep", "sample", "sleep">>
    /\ window.avg = 500

\* C13: no failure is swallowed or retried: once a sensor read or a file
\* operation has raised, the exception has left run(), and for the rest of that
\* process no sample is drawn, no record is logged and no flush is attempted.
C13_FailureStopsAcquisition ==
    /\ [](fault # "none" => pc = "Failed")
    /\ [][fault # "none" /\ runs' = runs =>
            UNCHANGED <<pc, fault, window, clock, handed, logger, record_count,
                        attempt, auto_flushes, exit_flushes>>]_vars

C13_Witness ==
    /\ pc = "Failed"
    /\ fault = "storage"
    /\ attempt.raised
    /\ attempt.via = "log"
    /\ Len(handed) = 2
    /\ reopens = 1

\* C14: under a configuration that breaks an invariant no sensor sample is
\* drawn and no record is logged: the fault is detected at construction.
C14_InvalidConfigIsFatal ==
    ~ValidCal(cal) =>
        /\ window.samples = <<>>
        /\ handed = <<>>

\* C15: classify tests current_rms < idle_threshold first (idle), then
\* current_rms > fault_threshold (fault), else running, for every input; the
\* result is one of the three labels; with idle_threshold <= fault_threshold a
\* current equal to either threshold is running (0.5 -> running, 0.4999 ->
\* idle, 100.0 -> running, 100.0001 -> fault for thresholds 0.5 and 100.0).
C15_ClassifyRule ==
    probe.fn = "classify" /\ probe.out # <<>> =>
        LET rms == probe.args[1]
            idle == probe.args[2]
            flt == probe.args[3]
            label == probe.out[1]
        IN  /\ label \in {"idle", "running", "fault"}
            /\ label = "idle" <=> rms < idle
            /\ label = "fault" <=> ~(rms < idle) /\ rms > flt
            /\ label = "running" <=> ~(rms < idle) /\ ~(rms > flt)
            /\ idle <= flt /\ rms \in {idle, flt} => label = "running"
            /\ idle = 5000 /\ flt = 1000000 =>
                 /\ rms = 5000 => label = "running"
                 /\ rms = 4999 => label = "idle"
                 /\ rms = 1000000 => label = "running"
                 /\ rms = 1000001 => label = "fault"

C15_Witness ==
    /\ probe.fn = "classify"
    /\ probe.args = <<1000000, 5000, 1000000>>
    /\ probe.out = <<"running">>

\* C17: for gain > 0, clamp rating > 0, line voltage and phases >= 0 and
\* 0 <= v1 <= v2, calculate gives rms_current(v1) <= rms_current(v2) and
\* power_w(v1) <= power_w(v2), and every returned power_w is
\* phases * rms_current * line_voltage of the returned rms_current.
C17_CalculateMonotone ==
    probe.fn = "calculate" /\ probe.out # <<>> =>
        LET a == probe.args
            r1 == probe.out[1]
            r2 == probe.out[2]
        IN  /\ ~r1.raised /\ ~r2.raised
            /\ a[5] <= a[6] =>
                 /\ r1.rms_current <= r2.rms_current
                 /\ r1.power_w <= r2.power_w
            /\ r1.power_w = FMul(a[4] * r1.rms_current, a[3])
            /\ r2.power_w = FMul(a[4] * r2.rms_current, a[3])

C17_Witness ==
    /\ probe.fn = "calculate"
    /\ probe.args = <<AMPLIFIER_GAIN, CT_RANGE_AMPS, LINE_VOLTAGE, PHASES, 1000, 3300>>
    /\ probe.out # <<>>
    /\ probe.out[1].rms_current = 354
    /\ probe.out[1].power_w = 244260
    /\ probe.out[2].rms_current > probe.out[1].rms_current
    /\ probe.out[2].power_w > probe.out[1].power_w

\* flush() called on the current logger and file leaves both as they are
FlushChangesNothing(lg, st) ==
    \A io \in FlushIo(Len(lg.buffer)) :
        flush(lg, st, io) =
            [logger |-> lg, store |-> st, raised |-> FALSE, flushed |-> FALSE]

\* C18: flush() on an empty buffer is a no-op, whatever opening the file
\* would have done: file, buffer and total_written are unchanged and nothing
\* is raised; hence a flush() right after a successful flush() changes nothing.
C18_EmptyFlushIsNoOp ==
    /\ [](logger.buffer = <<>> => FlushChangesNothing(logger, store))
    /\ [](\A io \in FlushIo(Len(logger.buffer)) :
             LET first == flush(logger, store, io)
             IN  ~first.raised => FlushChangesNothing(first.logger, first.store))
    /\ [][pc = "Exiting" /\ logger.buffer = <<>> /\ exit_flushes' # exit_flushes =>
            /\ store' = store
            /\ logger' = logger
            /\ attempt' = attempt
            /\ fault' = fault
            /\ pc' = "Stopped"]_vars

\* The final flush() found the buffer already emptied by log()'s own flush
C18_Witness ==
    /\ pc = "Stopped"
    /\ exit_flushes = 1
    /\ attempt.via = "log"
    /\ ~attempt.raised
    /\ logger.buffer = <<>>
    /\ logger.total_written = 2
    /\ Len(RowsOfRun) = 2

\* The timestamps of the buffered records, in buffer order
BufferStamps == [i \in 1..Len(logger.buffer) |-> logger.buffer[i].timestamp]

\* C19: without storage failure, while the process lives, the records handed
\* to log() are exactly the run's data rows in the file followed by the
\* buffered records (each in one place, none twice, none missing), and the
\* buffer shrinks only by a successful flush that appends all of it.
C19_RecordConservation ==
    /\ [](pc # "Terminated" => RowsOfRun \o BufferStamps = handed)
    /\ [](IsPrefix(RowsOfRun, handed))
    /\ [][runs' = runs /\ Len(logger'.buffer) < Len(logger.buffer) =>
            /\ attempt'.called /\ ~attempt'.raised
            /\ IsPrefix(logger.buffer, attempt'.buf)
            /\ logger'.buffer = <<>>
            /\ store'.data = store.data \o Rows(attempt'.buf)]_vars

\* Two records are in the file and a third is still buffered
C19_Witness ==
    /\ pc = "WindowSampling"
    /\ Len(handed) = 3
    /\ Len(RowsOfRun) = 2
    /\ Len(logger.buffer) = 1
    /\ logger.buffer[1].timestamp = handed[3]

\* C20: at every cycle boundary of run() record_count = total_written +
\* len(buffer); record_count goes up by exactly 1 per cycle, and log() has been
\* called exactly once per averaged window.
C20_CounterConsistency ==
    /\ [](pc \in {"WindowSampling", "Exiting"} =>
            /\ record_count = logger.total_written + Len(logger.buffer)
            /\ record_count = Len(handed)
            /\ window.done = Len(handed))
    /\ [][runs' = runs /\ record_count' # record_count =>
            /\ record_count' = record_count + 1
            /\ Len(handed') = Len(handed) + 1
            /\ window'.done = window.done + 1]_vars

\* A boundary after three cycles: two records flushed at once, one buffered
C20_Witness ==
    /\ pc = "WindowSampling"
    /\ record_count = 3
    /\ logger.total_written = 2
    /\ Len(logger.buffer) = 1
    /\ auto_flushes = 1

====
